---- MODULE Spec2Model ----
(***************************************************************************)
(* Lecture processing pipeline of the classroom-assistant backend:         *)
(* services/background_processor.py (BackgroundProcessor), the routes of   *)
(* routes/processing.py that drive it, and the two route-level copies of   *)
(* the pipeline in routes/ai.py and routes/lectures.py.                    *)
(*                                                                         *)
(* Python's None is the string "None"; an optional list is a record        *)
(* [isNone, items].  The database is the committed rows (lectures, tasks); *)
(* every context (loop thread or request handler) has its own session and  *)
(* its own locals, and a provider call is one blocking step.               *)
(***************************************************************************)
EXTENDS Integers, Sequences, FiniteSets, Bags, TLC

\* ---- bounds of the model ------------------------------------------------
NumUsers == 2
MaxOps == 2
MaxClock == 2

\* ---- program constants --------------------------------------------------
BatchLimit == 5
StaleHours == 1

UnknownLecture == 0
\* the lectures a run starts from, and the ids a request may name
InitialIds == {1, 2}
LectureIds == InitialIds \cup {UnknownLecture}
Users == 1..NumUsers
\* threads that start() may create: stop() does not end the running one, so
\* a later start() creates another
LoopThreads == {"loop1", "loop2"}
Requests == {"req1", "req2"}
Contexts == LoopThreads \cup Requests

None == "None"
NoneList == [isNone |-> TRUE, items |-> <<>>]
Some(l) == [isNone |-> FALSE, items |-> l]

\* Python truthiness of an optional string / optional list
Truthy(s) == s # None /\ s # ""
TruthyList(l) == ~l.isNone /\ Len(l.items) > 0

\* ---- provider outcomes (inputs) ----------------------------------------
\* transcribe_audio returns a stripped non-empty text or None
TranscribeOutcomes == {None, "hello world"}
\* generate_summary returns None or the stripped candidate text (may be "")
SummaryOutcomes == {None, "", "greeting"}
\* extract_key_points returns None or a list of strings
KeyPointOutcomes == {NoneList, Some(<<>>), Some(<<"k1", "k2">>)}
\* task descriptors; priority "<missing>" is a descriptor without the key
D1 == [title |-> "Read ch.1", priority |-> "high", due_date |-> None]
D2 == [title |-> "Quiz", priority |-> "<missing>", due_date |-> None]
D3 == [title |-> "Essay", priority |-> "HIGH", due_date |-> None]
D4 == [title |-> "Lab", priority |-> "low", due_date |-> "next week"]
\* what the text-generation provider answers to the task prompt: no usable
\* answer (HTTP error, network error, no candidate), text that is not JSON,
\* JSON that is not an array (here an object holding one descriptor), or a
\* JSON array of descriptors
TaskResponses ==
    {[kind |-> "error", items |-> <<>>],
     [kind |-> "not_json", items |-> <<>>],
     [kind |-> "not_array", items |-> <<D1>>]}
    \cup {[kind |-> "array", items |-> l] :
             l \in {<<>>, <<D1>>, <<D1, D2>>, <<D3>>, <<D4>>}}

\* variant: a JSON object is unwrapped into its descriptors
ExtractTasksUnwraps(r) ==
    IF r.kind \in {"array", "not_array"} THEN Some(r.items) ELSE NoneList

\* extract_tasks: json.loads of the cleaned text; the list when it is one,
\* None on a parse error, on a non-list and on every request failure
ExtractTasks(r) ==
    IF r.kind = "array" THEN Some(r.items) ELSE NoneList

\* extract_tasks returns None or a list of descriptors
TaskOutcomes == {ExtractTasks(r) : r \in TaskResponses}

VARIABLES
    lectures,       \* committed Lecture rows
    tasks,          \* committed Task rows (a bag: the table has no order)
    students,       \* ids of the users whose role is student
    rapidapi_key,   \* SpeechToTextService.rapidapi_key is configured
    gemini_key,     \* GeminiService.api_key is configured
    now,            \* datetime.utcnow(), in hours
    is_running,     \* BackgroundProcessor.is_running
    pc,             \* position of each context
    op,             \* operation each context is executing
    cur,            \* lecture id the context is working on
    batch,          \* lectures still to attempt in a cycle / retry request
    loc,            \* locals of the pipeline: transcript, summary, key_points, tasks_data
    result,         \* what the operation returned
    att,            \* history of the current attempt: provider calls, outcome, rows created
    processed_count,\* retry_failed_processing's counter
    nOps            \* operations begun so far

\* ids of the Lecture rows that exist
Lectures == DOMAIN lectures

vars == <<lectures, tasks, students, rapidapi_key, gemini_key, now, is_running,
          pc, op, cur, batch, loc, result, att, processed_count, nOps>>

dbVars == <<lectures, tasks>>
envVars == <<students, rapidapi_key, gemini_key, now>>

NoLocals == [transcript |-> None, summary |-> None, key_points |-> NoneList,
             lec_key_points |-> None, tasks_data |-> NoneList]
NoResult == [success |-> FALSE, message |-> "-"]
NoAttempt == [calls |-> <<>>, outcome |-> "-", transcript |-> None, extracted |-> "-",
              nmade |-> 0, ndesc |-> 0, nstudents |-> 0, pre |-> FALSE, prev |-> "-",
              at |-> 0]

NewLecture(audio, at) ==
    [audio_url |-> audio, transcript |-> None, summary |-> None, key_points |-> None,
     is_processed |-> FALSE, updated_at |-> at]

\* The lectures a run starts from: all unprocessed; the first was uploaded
\* with its audio more than the staleness window ago, the others just now,
\* with or without audio.
InitialLectures ==
    {f \in [InitialIds -> {NewLecture(None, 0), NewLecture("a1", 0),
                               NewLecture("a1", 0 - (StaleHours + 1))}] :
        /\ f[1] = NewLecture("a1", 0 - (StaleHours + 1))
        /\ \A l \in InitialIds \ {1} : f[l].updated_at = 0}

Init ==
    /\ lectures \in InitialLectures
    /\ tasks = EmptyBag
    /\ students = {}
    /\ rapidapi_key \in BOOLEAN
    /\ gemini_key \in BOOLEAN
    /\ now = 0
    /\ is_running = FALSE
    /\ pc = [c \in Contexts |-> IF c \in LoopThreads THEN "dead" ELSE "idle"]
    /\ op = [c \in Contexts |-> "none"]
    /\ cur = [c \in Contexts |-> UnknownLecture]
    /\ batch = [c \in Contexts |-> <<>>]
    /\ loc = [c \in Contexts |-> NoLocals]
    /\ result = [c \in Contexts |-> NoResult]
    /\ att = [c \in Contexts |-> NoAttempt]
    /\ processed_count = [c \in Contexts |-> 0]
    /\ nOps = 0

\* ---- helpers ------------------------------------------------------------
Min(a, b) == IF a <= b THEN a ELSE b

\* the rows of a query in the order of their ids
RECURSIVE SortedSeq(_)
SortedSeq(S) ==
    IF S = {} THEN <<>>
    ELSE LET m == CHOOSE x \in S : \A y \in S : x <= y
         IN <<m>> \o SortedSeq(S \ {m})

\* every order in which a query without ORDER BY may return n rows of S
RECURSIVE Orderings(_, _)
Orderings(S, n) ==
    IF n = 0 THEN {<<>>}
    ELSE UNION {{<<x>> \o q : q \in Orderings(S \ {x}, n - 1)} : x \in S}

\* the rows of a list, as a bag
RECURSIVE SeqToBag(_)
SeqToBag(q) == IF q = <<>> THEN EmptyBag ELSE SetToBag({Head(q)}) (+) SeqToBag(Tail(q))

\* ', '.join(key_points)
RECURSIVE Join(_)
Join(s) ==
    IF s = <<>> THEN ""
    ELSE IF Len(s) = 1 THEN s[1] ELSE s[1] \o ", " \o Join(Tail(s))

\* task_data.get('priority', 'medium')
GetPriority(d) == IF d.priority = "<missing>" THEN "medium" ELSE d.priority

\* TaskPriority(value): lookup of an enum member by value
TaskPriorityValues == {"high", "medium", "low"}
TaskPriorityRaises(v) == v \notin TaskPriorityValues
TaskPriority(v) ==
    CASE v = "high" -> "HIGH"
      [] v = "medium" -> "MEDIUM"
      [] v = "low" -> "LOW"
      [] OTHER -> "ValueError"

\* Task(...) as built by BackgroundProcessor._process_lecture
BPTask(d, student, lid) ==
    [title |-> d.title, lecture_id |-> lid, assigned_to_id |-> student,
     priority |-> TaskPriority(GetPriority(d)), due_date |-> d.due_date,
     is_ai_generated |-> TRUE]

\* variant: the task goes to the first student only
BPTasksFirstStudentOnly(d, studs, lid) ==
    IF studs = <<>> THEN <<>> ELSE <<BPTask(d, Head(studs), lid)>>

\* for student in students: ... db.session.add(task)
RECURSIVE BPTasksForStudents(_, _, _)
BPTasksForStudents(d, studs, lid) ==
    IF studs = <<>> THEN <<>>
    ELSE <<BPTask(d, Head(studs), lid)>> \o BPTasksForStudents(d, Tail(studs), lid)

\* for task_data in tasks_data: for student in students: ...
RECURSIVE BPFanOut(_, _, _)
BPFanOut(ds, studs, lid) ==
    IF ds = <<>> THEN <<>>
    ELSE BPTasksForStudents(Head(ds), studs, lid) \o BPFanOut(Tail(ds), studs, lid)

\* created_tasks of one attempt: nothing when tasks_data is falsy
BPCreatedTasks(td, studs, lid) ==
    IF TruthyList(td) THEN BPFanOut(td.items, studs, lid) ELSE <<>>

\* variant: the priorities are looked up before the students are iterated
BPFanOutRaisesEager(td, studs) ==
    /\ TruthyList(td)
    /\ \E i \in 1..Len(td.items) : TaskPriorityRaises(GetPriority(td.items[i]))

\* the task loop raises when a TaskPriority(...) lookup is evaluated and fails
BPFanOutRaises(td, studs) ==
    /\ TruthyList(td)
    /\ studs # <<>>
    /\ \E i \in 1..Len(td.items) : TaskPriorityRaises(GetPriority(td.items[i]))

\* the strings datetime.fromisoformat parses
IsoStrings == {"2025-01-01T00:00:00"}

\* due_date=task_data.get('due_date') hands the descriptor's string to the
\* DateTime column: a string that is no date/time is refused when the
\* session is flushed
DueDateRejected(v) == v # None /\ v \notin IsoStrings

\* db.session.commit() raises on a row the column types refuse
BPFlushRaises(td, studs) ==
    /\ TruthyList(td)
    /\ studs # <<>>
    /\ \E i \in 1..Len(td.items) : DueDateRejected(td.items[i].due_date)

\* User.query.filter(User.role == 'student').all()
StudentsQuery == SortedSeq(students)

\* Lecture.query.filter(audio_url IS NOT NULL, is_processed == False)
Unprocessed == {l \in Lectures : lectures[l].audio_url # None /\ ~lectures[l].is_processed}

\* ... AND updated_at < utcnow() - timedelta(hours=1)
FailedLectures == {l \in Unprocessed : lectures[l].updated_at < now - StaleHours}

\* variant: the lecture counts as processed only when tasks were extracted
BPProcessedIfTasks(row, lo) ==
    [row EXCEPT !.transcript = lo.transcript,
                !.summary = lo.summary,
                !.key_points = IF TruthyList(lo.key_points) THEN Join(lo.key_points.items) ELSE None,
                !.is_processed = TruthyList(lo.tasks_data),
                !.updated_at = now]

\* lecture fields written by a successful background attempt
BPProcessed(row, lo) ==
    [row EXCEPT !.transcript = lo.transcript,
                !.summary = lo.summary,
                !.key_points = IF TruthyList(lo.key_points) THEN Join(lo.key_points.items) ELSE None,
                !.is_processed = TRUE,
                !.updated_at = now]

\* ---- frame helper: the per-context fields of context c ------------------
Set(c, p, l, b, lo, r, a, n) ==
    /\ pc' = [pc EXCEPT ![c] = p]
    /\ cur' = [cur EXCEPT ![c] = l]
    /\ batch' = [batch EXCEPT ![c] = b]
    /\ loc' = [loc EXCEPT ![c] = lo]
    /\ result' = [result EXCEPT ![c] = r]
    /\ att' = [att EXCEPT ![c] = a]
    /\ processed_count' = [processed_count EXCEPT ![c] = n]

\* Request handlers are interchangeable: the second one is used only while
\* the first is occupied.  The same holds for the loop threads.
FirstFree(c) ==
    /\ c = "req2" => pc["req1"] # "idle"
    /\ c = "loop2" => pc["loop1"] # "dead"

Begin(c, o) ==
    /\ nOps < MaxOps
    /\ nOps' = nOps + 1
    /\ op' = [op EXCEPT ![c] = o]

Called(a, name) == [a EXCEPT !.calls = Append(@, name)]
Extracted(a, r) ==
    [Called(a, "extract_tasks") EXCEPT
        !.extracted = CASE r.kind = "array" -> "list"
                        [] r.kind = "error" -> "none"
                        [] OTHER -> "unparsable",
        !.ndesc = Len(ExtractTasks(r).items)]
Transcribed(a, t) == [Called(a, "transcribe_audio") EXCEPT !.transcript = t]
\* the attempt ends now
Ended(a, outcome) == [a EXCEPT !.outcome = outcome, !.at = now]
Fresh(id) == [NoAttempt EXCEPT !.pre = (id \in Lectures /\ lectures[id].is_processed)]

\* variant: the audio check comes before the is_processed check
EntryOutcomeAudioFirst(id) ==
    IF id \notin Lectures THEN "not_found"
    ELSE IF ~Truthy(lectures[id].audio_url) THEN "no_audio"
    ELSE IF lectures[id].is_processed THEN "already_processed"
    ELSE "run"

\* variant: the entry checks without the is_processed test
EntryOutcomeAlwaysRuns(id) ==
    IF id \notin Lectures THEN "not_found"
    ELSE IF ~Truthy(lectures[id].audio_url) THEN "no_audio"
    ELSE "run"

\* ---- BackgroundProcessor.process_lecture_immediately: entry checks ------
EntryOutcome(id) ==
    IF id \notin Lectures THEN "not_found"
    ELSE IF lectures[id].is_processed THEN "already_processed"
    ELSE IF ~Truthy(lectures[id].audio_url) THEN "no_audio"
    ELSE "run"

EntryResult(id) ==
    CASE EntryOutcome(id) = "not_found" -> [success |-> FALSE, message |-> "Lecture not found"]
      [] EntryOutcome(id) = "already_processed" -> [success |-> TRUE, message |-> "Lecture already processed"]
      [] EntryOutcome(id) = "no_audio" -> [success |-> FALSE, message |-> "No audio file found"]
      [] OTHER -> NoResult

\* what process_lecture_immediately returns once _process_lecture has ended
ImmediateResult(outcome) ==
    IF outcome \in {"raised", "commit_failed"}
    THEN [success |-> FALSE, message |-> "Processing failed"]
    ELSE [success |-> TRUE, message |-> "Lecture processed successfully"]

\* the caller of _process_lecture receives its return or its exception
AttemptResult(o, outcome) ==
    IF o \in {"immediate", "retry"} THEN ImmediateResult(outcome) ELSE NoResult

Enter(c, id, b, n) ==
    IF EntryOutcome(id) = "run"
    THEN Set(c, "bp_transcribe", id, b, NoLocals, NoResult, Fresh(id), n)
    ELSE Set(c, "attempt_end", id, b, NoLocals, EntryResult(id),
             Ended(Fresh(id), EntryOutcome(id)), n)

\* POST /process/lecture/<lecture_id>
ProcessImmediately(c, id) ==
    /\ c \in Requests
    /\ pc[c] = "idle"
    /\ FirstFree(c)
    /\ Begin(c, "immediate")
    /\ Enter(c, id, <<>>, 0)
    /\ UNCHANGED <<dbVars, envVars, is_running>>

\* ---- BackgroundProcessor._process_lecture -------------------------------
BPReturn(c, a) ==
    Set(c, "attempt_end", cur[c], batch[c], NoLocals, AttemptResult(op[c], a.outcome), a,
        processed_count[c])

\* variant: a failed transcription is logged but the attempt goes on
BPTranscribeContinues(c) ==
    /\ pc[c] = "bp_transcribe"
    /\ IF ~rapidapi_key
       THEN BPReturn(c, Ended(att[c], "speech_unavailable"))
       ELSE \E t \in TranscribeOutcomes :
              Set(c, "bp_summary", cur[c], batch[c], [loc[c] EXCEPT !.transcript = t],
                  result[c], Transcribed(att[c], t), processed_count[c])
    /\ UNCHANGED <<dbVars, envVars, is_running, op, nOps>>

\* Step 1: is_available(), transcribe_audio(lecture.audio_url)
BPTranscribe(c) ==
    /\ pc[c] = "bp_transcribe"
    /\ IF ~rapidapi_key
       THEN BPReturn(c, Ended(att[c], "speech_unavailable"))
       ELSE \E t \in TranscribeOutcomes :
              IF ~Truthy(t)
              THEN BPReturn(c, Ended(Called(att[c], "transcribe_audio"), "no_transcript"))
              ELSE Set(c, "bp_summary", cur[c], batch[c], [loc[c] EXCEPT !.transcript = t],
                       result[c], Transcribed(att[c], t), processed_count[c])
    /\ UNCHANGED <<dbVars, envVars, is_running, op, nOps>>

\* variant: only a missing summary (None) ends the attempt, an empty one does not
BPSummaryUnchecked(c) ==
    /\ pc[c] = "bp_summary"
    /\ IF ~gemini_key
       THEN BPReturn(c, Ended(att[c], "gemini_unavailable"))
       ELSE \E s \in SummaryOutcomes :
              IF s = None
              THEN BPReturn(c, Ended(Called(att[c], "generate_summary"), "no_summary"))
              ELSE Set(c, "bp_keypoints", cur[c], batch[c], [loc[c] EXCEPT !.summary = s],
                       result[c], Called(att[c], "generate_summary"), processed_count[c])
    /\ UNCHANGED <<dbVars, envVars, is_running, op, nOps>>

\* Step 2: is_available(), generate_summary(transcript)
BPSummary(c) ==
    /\ pc[c] = "bp_summary"
    /\ IF ~gemini_key
       THEN BPReturn(c, Ended(att[c], "gemini_unavailable"))
       ELSE \E s \in SummaryOutcomes :
              IF ~Truthy(s)
              THEN BPReturn(c, Ended(Called(att[c], "generate_summary"), "no_summary"))
              ELSE Set(c, "bp_keypoints", cur[c], batch[c], [loc[c] EXCEPT !.summary = s],
                       result[c], Called(att[c], "generate_summary"), processed_count[c])
    /\ UNCHANGED <<dbVars, envVars, is_running, op, nOps>>

\* variant: extract_key_points is called a second time when it returned None
BPKeyPointsRetries(c) ==
    /\ pc[c] = "bp_keypoints"
    /\ \E k \in KeyPointOutcomes :
         Set(c, "bp_tasks", cur[c], batch[c], [loc[c] EXCEPT !.key_points = k],
             result[c],
             IF k.isNone
             THEN Called(Called(att[c], "extract_key_points"), "extract_key_points")
             ELSE Called(att[c], "extract_key_points"),
             processed_count[c])
    /\ UNCHANGED <<dbVars, envVars, is_running, op, nOps>>

\* Step 3: extract_key_points(transcript)
BPKeyPoints(c) ==
    /\ pc[c] = "bp_keypoints"
    /\ \E k \in KeyPointOutcomes :
         Set(c, "bp_tasks", cur[c], batch[c], [loc[c] EXCEPT !.key_points = k],
             result[c], Called(att[c], "extract_key_points"), processed_count[c])
    /\ UNCHANGED <<dbVars, envVars, is_running, op, nOps>>

\* Step 4: extract_tasks(transcript)
BPTasks(c) ==
    /\ pc[c] = "bp_tasks"
    /\ \E r \in TaskResponses :
         Set(c, "bp_commit", cur[c], batch[c],
             [loc[c] EXCEPT !.tasks_data = ExtractTasks(r)],
             result[c], Extracted(att[c], r), processed_count[c])
    /\ UNCHANGED <<dbVars, envVars, is_running, op, nOps>>

\* variant: the lecture update is committed before the tasks are created
BPCommitLectureFirst(c) ==
    /\ pc[c] = "bp_commit"
    /\ \E db_ok \in BOOLEAN :
         LET studs == StudentsQuery
             made == BPCreatedTasks(loc[c].tasks_data, studs, cur[c])
             a == [att[c] EXCEPT !.nstudents = Len(studs)]
             raises == \/ BPFanOutRaises(loc[c].tasks_data, studs)
                       \/ BPFlushRaises(loc[c].tasks_data, studs)
         IN IF ~db_ok
            THEN /\ BPReturn(c, Ended(a, "commit_failed"))
                 /\ UNCHANGED dbVars
            ELSE IF raises
            THEN /\ lectures' = [lectures EXCEPT ![cur[c]] = BPProcessed(@, loc[c])]
                 /\ UNCHANGED tasks
                 /\ BPReturn(c, Ended(a, "raised"))
            ELSE /\ lectures' = [lectures EXCEPT ![cur[c]] = BPProcessed(@, loc[c])]
                 /\ tasks' = tasks (+) SeqToBag(made)
                 /\ BPReturn(c, Ended([a EXCEPT !.nmade = Len(made)], "committed"))
    /\ UNCHANGED <<envVars, is_running, op, nOps>>

\* variant: the tasks are committed on their own, before the lecture update
BPCommitTasksFirst(c) ==
    /\ pc[c] = "bp_commit"
    /\ \E db_ok \in BOOLEAN :
         LET studs == StudentsQuery
             made == BPCreatedTasks(loc[c].tasks_data, studs, cur[c])
             a == [att[c] EXCEPT !.nstudents = Len(studs)]
             raises == \/ BPFanOutRaises(loc[c].tasks_data, studs)
                       \/ BPFlushRaises(loc[c].tasks_data, studs)
         IN IF raises
            THEN /\ BPReturn(c, Ended(a, "raised"))
                 /\ UNCHANGED dbVars
            ELSE IF ~db_ok
            THEN /\ tasks' = tasks (+) SeqToBag(made)
                 /\ UNCHANGED lectures
                 /\ BPReturn(c, Ended(a, "commit_failed"))
            ELSE /\ lectures' = [lectures EXCEPT ![cur[c]] = BPProcessed(@, loc[c])]
                 /\ tasks' = tasks (+) SeqToBag(made)
                 /\ BPReturn(c, Ended([a EXCEPT !.nmade = Len(made)], "committed"))
    /\ UNCHANGED <<envVars, is_running, op, nOps>>

\* lines 117-154: update the lecture, create the tasks, commit; rollback and
\* re-raise when the task loop or the commit raises
BPCommit(c) ==
    /\ pc[c] = "bp_commit"
    /\ \E db_ok \in BOOLEAN :
         LET studs == StudentsQuery
             made == BPCreatedTasks(loc[c].tasks_data, studs, cur[c])
             a == [att[c] EXCEPT !.nstudents = Len(studs)]
             raises == \/ BPFanOutRaises(loc[c].tasks_data, studs)
                       \/ BPFlushRaises(loc[c].tasks_data, studs)
         IN IF raises \/ ~db_ok
            THEN /\ BPReturn(c, Ended(a, IF raises THEN "raised" ELSE "commit_failed"))
                 /\ UNCHANGED dbVars
            ELSE /\ lectures' = [lectures EXCEPT ![cur[c]] = BPProcessed(@, loc[c])]
                 /\ tasks' = tasks (+) SeqToBag(made)
                 /\ BPReturn(c, Ended([a EXCEPT !.nmade = Len(made)], "committed"))
    /\ UNCHANGED <<envVars, is_running, op, nOps>>

\* ---- BackgroundProcessor.start / stop / _process_loop -------------------
\* start(): no-op when already running, else a new thread runs _process_loop
Start ==
    /\ ~is_running
    /\ is_running' = TRUE
    /\ \E t \in LoopThreads :
         /\ pc[t] = "dead"
         /\ FirstFree(t)
         /\ pc' = [pc EXCEPT ![t] = "loop_check"]
    /\ UNCHANGED <<dbVars, envVars, op, cur, batch, loc, result, att,
                   processed_count, nOps>>

\* variant: stop() ends the thread wherever it is
StopAborts ==
    /\ is_running
    /\ is_running' = FALSE
    /\ pc' = [c \in Contexts |-> IF c \in LoopThreads THEN "dead" ELSE pc[c]]
    /\ UNCHANGED <<dbVars, envVars, op, cur, batch, loc, result, att,
                   processed_count, nOps>>

\* stop(): clears the flag; join(timeout=5) only waits
Stop ==
    /\ is_running
    /\ is_running' = FALSE
    /\ UNCHANGED <<dbVars, envVars, pc, op, cur, batch, loc, result, att,
                   processed_count, nOps>>

\* while self.is_running: false -> the thread ends
LoopExit(t) ==
    /\ t \in LoopThreads
    /\ pc[t] = "loop_check"
    /\ ~is_running
    /\ Set(t, "dead", UnknownLecture, <<>>, NoLocals, NoResult, NoAttempt, 0)
    /\ op' = [op EXCEPT ![t] = "none"]
    /\ UNCHANGED <<dbVars, envVars, is_running, nOps>>

\* the rest of a cycle's batch: _process_lecture(lecture) for the next one;
\* after the last, time.sleep(processing_interval) and the while test again
CycleNext(t, b) ==
    IF b = <<>>
    THEN Set(t, "loop_check", UnknownLecture, <<>>, NoLocals, NoResult, NoAttempt, 0)
    ELSE Set(t, "bp_transcribe", Head(b), Tail(b), NoLocals, NoResult,
             [Fresh(Head(b)) EXCEPT !.prev = att[t].outcome], 0)

\* the batches the query with limit(5) may return, for every set of
\* unprocessed lectures with audio (tabulated once)
Batches ==
    [S \in SUBSET (1..(BatchLimit + 1)) |->
        Orderings(S, Min(BatchLimit, Cardinality(S)))]

\* _process_unprocessed_lectures: the query with limit(5), then the loop
RunCycle(t) ==
    /\ t \in LoopThreads
    /\ pc[t] = "loop_check"
    /\ is_running
    /\ \E b \in Batches[Unprocessed] :
         CycleNext(t, b)
    /\ UNCHANGED <<dbVars, envVars, is_running>>

ProcessUnprocessedLectures(t) ==
    /\ Begin(t, "cycle")
    /\ RunCycle(t)

\* ---- POST /process/retry-failed -----------------------------------------
RetriedResult(n) == [success |-> TRUE, message |-> "Retried processing", count |-> n]

\* the rest of failed_lectures: process_lecture_immediately(lecture.id) for
\* the next one, the response after the last
RetryNext(c, b, n) ==
    IF b = <<>>
    THEN Set(c, "done", UnknownLecture, <<>>, NoLocals, RetriedResult(n), NoAttempt, n)
    ELSE Enter(c, Head(b), Tail(b), n)

RetryFailedProcessing(c) ==
    /\ c \in Requests
    /\ pc[c] = "idle"
    /\ FirstFree(c)
    /\ Begin(c, "retry")
    /\ \E b \in Orderings(FailedLectures, Cardinality(FailedLectures)) :
         RetryNext(c, b, 0)
    /\ UNCHANGED <<dbVars, envVars, is_running>>

\* variant: an exception from one lecture ends the cycle's batch
ContinueAbortsOnException(c) ==
    /\ pc[c] = "attempt_end"
    /\ op[c] \in {"cycle", "retry"}
    /\ IF op[c] = "cycle"
       THEN CycleNext(c, IF att[c].outcome \in {"raised", "commit_failed"}
                         THEN <<>> ELSE batch[c])
       ELSE RetryNext(c, batch[c],
                      IF result[c].success THEN processed_count[c] + 1
                      ELSE processed_count[c])
    /\ UNCHANGED <<dbVars, envVars, is_running, op, nOps>>

\* ---- after one lecture of a batch ---------------------------------------
\* the cycle's loop logs an exception and continues; retry-failed counts the
\* successful results
Continue(c) ==
    /\ pc[c] = "attempt_end"
    /\ op[c] \in {"cycle", "retry"}
    /\ IF op[c] = "cycle"
       THEN CycleNext(c, batch[c])
       ELSE RetryNext(c, batch[c],
                      IF result[c].success THEN processed_count[c] + 1
                      ELSE processed_count[c])
    /\ UNCHANGED <<dbVars, envVars, is_running, op, nOps>>

\* the response of a request has been sent
Finish(c) ==
    /\ c \in Requests
    /\ \/ pc[c] = "attempt_end" /\ op[c] \in {"immediate", "ai", "lec"}
       \/ pc[c] = "done"
    /\ Set(c, "idle", UnknownLecture, <<>>, NoLocals, NoResult, NoAttempt, 0)
    /\ op' = [op EXCEPT ![c] = "none"]
    /\ UNCHANGED <<dbVars, envVars, is_running, nOps>>

\* ---- environment --------------------------------------------------------
\* a user with the student role registers
AddStudent(u) ==
    /\ u \in Users \ students
    /\ \A v \in Users : v < u => v \in students
    /\ students' = students \cup {u}
    /\ UNCHANGED <<dbVars, rapidapi_key, gemini_key, now, is_running, pc, op, cur,
                   batch, loc, result, att, processed_count, nOps>>

\* an hour passes
Tick ==
    /\ now < MaxClock
    /\ now' = now + 1
    /\ UNCHANGED <<dbVars, students, rapidapi_key, gemini_key, is_running, pc, op,
                   cur, batch, loc, result, att, processed_count, nOps>>

\* ---- the route-level copies of the pipeline ------------------------------
RouteResult(ok, msg) == [success |-> ok, message |-> msg]

\* the two routes' entry checks: 404 without the lecture, 400 without audio
RouteEntryOutcome(id) ==
    IF id \notin Lectures THEN "not_found"
    ELSE IF ~Truthy(lectures[id].audio_url) THEN "no_audio"
    ELSE "run"

RouteEnter(c, id, first) ==
    IF RouteEntryOutcome(id) = "run"
    THEN Set(c, first, id, <<>>, NoLocals, NoResult, Fresh(id), 0)
    ELSE Set(c, "attempt_end", id, <<>>, NoLocals,
             RouteResult(FALSE, IF id \notin Lectures THEN "Lecture not found"
                                ELSE "No audio file"),
             Ended(Fresh(id), RouteEntryOutcome(id)), 0)

RouteReturn(c, a, r) ==
    Set(c, "attempt_end", cur[c], batch[c], NoLocals, r, a, processed_count[c])

\* str.lower() on the priority strings a descriptor may carry
Lower(v) ==
    CASE v = "HIGH" -> "high"
      [] v = "High" -> "high"
      [] v = "LOW" -> "low"
      [] v = "Medium" -> "medium"
      [] OTHER -> v

\* routes/ai.py: priority_str = task_data.get('priority', 'medium').lower()
\* raises on a null priority; high / low / anything else
AiPriorityRaises(d) == GetPriority(d) = "<null>"
AiPriority(d) ==
    LET priority_str == Lower(GetPriority(d))
    IN IF priority_str = "high" THEN "HIGH"
       ELSE IF priority_str = "low" THEN "LOW"
       ELSE "MEDIUM"

\* datetime.fromisoformat: the parsed value; None on ValueError, TypeError
AiDueDate(d) ==
    IF Truthy(d.due_date) /\ d.due_date \in IsoStrings THEN d.due_date ELSE None

AiTask(d, student, lid) ==
    [title |-> d.title, lecture_id |-> lid, assigned_to_id |-> student,
     priority |-> AiPriority(d), due_date |-> AiDueDate(d),
     is_ai_generated |-> TRUE]

\* for student in students: try: ... except: continue
RECURSIVE AiTasksForStudents(_, _, _)
AiTasksForStudents(d, studs, lid) ==
    IF studs = <<>> THEN <<>>
    ELSE (IF AiPriorityRaises(d) THEN <<>> ELSE <<AiTask(d, Head(studs), lid)>>)
         \o AiTasksForStudents(d, Tail(studs), lid)

RECURSIVE AiFanOut(_, _, _)
AiFanOut(ds, studs, lid) ==
    IF ds = <<>> THEN <<>>
    ELSE AiTasksForStudents(Head(ds), studs, lid) \o AiFanOut(Tail(ds), studs, lid)

AiCreatedTasks(td, studs, lid) ==
    IF TruthyList(td) THEN AiFanOut(td.items, studs, lid) ELSE <<>>

\* lecture fields written by POST /api/ai/process-lecture/<id>
AiProcessed(row, lo) ==
    [row EXCEPT !.transcript = lo.transcript,
                !.summary = lo.summary,
                !.key_points = IF TruthyList(lo.key_points) THEN Join(lo.key_points.items) ELSE @,
                !.is_processed = TRUE,
                !.updated_at = now]

\* POST /api/ai/process-lecture/<lecture_id>
AiProcessLecture(c, id) ==
    /\ c \in Requests
    /\ pc[c] = "idle"
    /\ FirstFree(c)
    /\ Begin(c, "ai")
    /\ RouteEnter(c, id, "ai_transcribe")
    /\ UNCHANGED <<dbVars, envVars, is_running>>

AiTranscribe(c) ==
    /\ pc[c] = "ai_transcribe"
    /\ \E t \in (IF rapidapi_key THEN TranscribeOutcomes ELSE {None}) :
         LET a == IF rapidapi_key THEN Transcribed(att[c], t) ELSE att[c]
         IN IF ~Truthy(t)
            THEN RouteReturn(c, Ended(a, "no_transcript"),
                             RouteResult(FALSE, "Failed to transcribe audio"))
            ELSE Set(c, "ai_summary", cur[c], batch[c], [loc[c] EXCEPT !.transcript = t],
                     result[c], a, processed_count[c])
    /\ UNCHANGED <<dbVars, envVars, is_running, op, nOps>>

AiSummary(c) ==
    /\ pc[c] = "ai_summary"
    /\ \E s \in (IF gemini_key THEN SummaryOutcomes ELSE {None}) :
         LET a == IF gemini_key THEN Called(att[c], "generate_summary") ELSE att[c]
         IN IF ~Truthy(s)
            THEN RouteReturn(c, Ended(a, "no_summary"),
                             RouteResult(FALSE, "Failed to generate summary"))
            ELSE Set(c, "ai_keypoints", cur[c], batch[c], [loc[c] EXCEPT !.summary = s],
                     result[c], a, processed_count[c])
    /\ UNCHANGED <<dbVars, envVars, is_running, op, nOps>>

AiKeyPoints(c) ==
    /\ pc[c] = "ai_keypoints"
    /\ \E k \in (IF gemini_key THEN KeyPointOutcomes ELSE {NoneList}) :
         Set(c, "ai_tasks", cur[c], batch[c], [loc[c] EXCEPT !.key_points = k], result[c],
             IF gemini_key THEN Called(att[c], "extract_key_points") ELSE att[c],
             processed_count[c])
    /\ UNCHANGED <<dbVars, envVars, is_running, op, nOps>>

\* tasks_data = []; extract_tasks only when the service is available
AiTasks(c) ==
    /\ pc[c] = "ai_tasks"
    /\ IF gemini_key
       THEN \E r \in TaskResponses :
              Set(c, "ai_commit", cur[c], batch[c],
                  [loc[c] EXCEPT !.tasks_data = ExtractTasks(r)], result[c],
                  Extracted(att[c], r), processed_count[c])
       ELSE Set(c, "ai_commit", cur[c], batch[c], [loc[c] EXCEPT !.tasks_data = Some(<<>>)],
                result[c], att[c], processed_count[c])
    /\ UNCHANGED <<dbVars, envVars, is_running, op, nOps>>

AiCommit(c) ==
    /\ pc[c] = "ai_commit"
    /\ \E db_ok \in BOOLEAN :
         LET studs == StudentsQuery
             made == AiCreatedTasks(loc[c].tasks_data, studs, cur[c])
             a == [att[c] EXCEPT !.nstudents = Len(studs)]
         IN IF ~db_ok
            THEN /\ RouteReturn(c, Ended(a, "commit_failed"),
                                RouteResult(FALSE, "Failed to process lecture"))
                 /\ UNCHANGED dbVars
            ELSE /\ lectures' = [lectures EXCEPT ![cur[c]] = AiProcessed(@, loc[c])]
                 /\ tasks' = tasks (+) SeqToBag(made)
                 /\ RouteReturn(c, Ended([a EXCEPT !.nmade = Len(made)], "committed"),
                                RouteResult(TRUE, "Lecture processed successfully"))
    /\ UNCHANGED <<envVars, is_running, op, nOps>>

\* lecture fields written by POST /api/lectures/<id>/process
LecProcessed(row, lo) ==
    [row EXCEPT !.transcript = IF Truthy(lo.transcript) THEN lo.transcript ELSE @,
                !.summary = IF Truthy(lo.summary) THEN lo.summary ELSE @,
                !.key_points = IF Truthy(lo.lec_key_points) THEN lo.lec_key_points ELSE @,
                !.is_processed = TRUE,
                !.updated_at = now]

\* POST /api/lectures/<lecture_id>/process
LecProcessLecture(c, id) ==
    /\ c \in Requests
    /\ pc[c] = "idle"
    /\ FirstFree(c)
    /\ Begin(c, "lec")
    /\ RouteEnter(c, id, "lec_transcribe")
    /\ UNCHANGED <<dbVars, envVars, is_running>>

\* Step 1: transcription only when the speech service is available
LecTranscribe(c) ==
    /\ pc[c] = "lec_transcribe"
    /\ \E t \in (IF rapidapi_key THEN TranscribeOutcomes ELSE {None}) :
         Set(c, "lec_summary", cur[c], batch[c], [loc[c] EXCEPT !.transcript = t], result[c],
             IF rapidapi_key THEN Transcribed(att[c], t) ELSE att[c],
             processed_count[c])
    /\ UNCHANGED <<dbVars, envVars, is_running, op, nOps>>

\* Step 2: summary, when gemini is available and there is a transcript
LecSummary(c) ==
    /\ pc[c] = "lec_summary"
    /\ IF gemini_key /\ Truthy(loc[c].transcript)
       THEN \E s \in SummaryOutcomes :
              Set(c, "lec_keypoints", cur[c], batch[c], [loc[c] EXCEPT !.summary = s],
                  result[c], Called(att[c], "generate_summary"), processed_count[c])
       ELSE Set(c, "lec_commit", cur[c], batch[c], loc[c], result[c], att[c],
                processed_count[c])
    /\ UNCHANGED <<dbVars, envVars, is_running, op, nOps>>

\* key points: a second generate_summary call on a prompt
LecKeyPoints(c) ==
    /\ pc[c] = "lec_keypoints"
    /\ \E k \in SummaryOutcomes :
         Set(c, "lec_commit", cur[c], batch[c], [loc[c] EXCEPT !.lec_key_points = k],
             result[c], Called(att[c], "generate_summary"), processed_count[c])
    /\ UNCHANGED <<dbVars, envVars, is_running, op, nOps>>

\* Mark lecture as processed; commit
LecCommit(c) ==
    /\ pc[c] = "lec_commit"
    /\ \E db_ok \in BOOLEAN :
         IF ~db_ok
         THEN /\ RouteReturn(c, Ended(att[c], "commit_failed"),
                             RouteResult(FALSE, "Failed to process lecture"))
              /\ UNCHANGED dbVars
         ELSE /\ lectures' = [lectures EXCEPT ![cur[c]] = LecProcessed(@, loc[c])]
              /\ UNCHANGED tasks
              /\ RouteReturn(c, Ended(att[c], "committed"),
                             RouteResult(TRUE, "Lecture processed successfully"))
    /\ UNCHANGED <<envVars, is_running, op, nOps>>

\* ---- PUT /api/lectures/<lecture_id> --------------------------------------
\* request bodies: the allowed fields a client sets
UpdatePayloads ==
    {[is_processed |-> TRUE], [is_processed |-> FALSE],
     [audio_url |-> None], [audio_url |-> "a1"]}

\* setattr(lecture, field, data[field]) for the fields sent; updated_at
Updated(row, data) ==
    [f \in DOMAIN row |->
        IF f \in DOMAIN data THEN data[f]
        ELSE IF f = "updated_at" THEN now
        ELSE row[f]]

UpdateLecture(id, data) ==
    /\ id \in Lectures
    /\ nOps < MaxOps
    /\ nOps' = nOps + 1
    /\ lectures' = [lectures EXCEPT ![id] = Updated(@, data)]
    /\ UNCHANGED <<tasks, envVars, is_running, pc, op, cur, batch, loc, result, att,
                   processed_count>>

\* ---- GET /process/status --------------------------------------------------
\* Lecture.query.filter(Lecture.is_processed == True).count()
NumProcessed == Cardinality({l \in Lectures : lectures[l].is_processed})

StatusResult(t, p, u, r) ==
    [success |-> TRUE, message |-> "status", total_lectures |-> t,
     processed_lectures |-> p, unprocessed_lectures |-> u, is_running |-> r]

\* except Exception: return {'error': str(e)}
StatusError == [success |-> FALSE, message |-> "error"]

\* one query of get_processing_status: the next one follows, or the query
\* fails and the error is returned
StatusStep(c, next, r) ==
    \E db_ok \in BOOLEAN :
        IF db_ok
        THEN Set(c, next, UnknownLecture, <<>>, NoLocals, r, NoAttempt, 0)
        ELSE Set(c, "done", UnknownLecture, <<>>, NoLocals, StatusError, NoAttempt, 0)

\* total_lectures = Lecture.query.count()
StatusTotal(c) ==
    /\ c \in Requests
    /\ pc[c] = "idle"
    /\ FirstFree(c)
    /\ op' = [op EXCEPT ![c] = "status"]
    /\ StatusStep(c, "st_processed", StatusResult(Cardinality(Lectures), 0, 0, FALSE))
    /\ UNCHANGED <<dbVars, envVars, is_running, nOps>>

\* processed_lectures = ...filter(is_processed == True).count()
StatusProcessed(c) ==
    /\ pc[c] = "st_processed"
    /\ StatusStep(c, "st_unprocessed",
                  [result[c] EXCEPT !.processed_lectures = NumProcessed])
    /\ UNCHANGED <<dbVars, envVars, is_running, op, nOps>>

\* variant: every unprocessed lecture is counted, with or without audio
StatusUnprocessedIgnoresAudio(c) ==
    /\ pc[c] = "st_unprocessed"
    /\ StatusStep(c, "done",
                  [result[c] EXCEPT
                      !.unprocessed_lectures = Cardinality(Lectures) - NumProcessed,
                      !.is_running = is_running])
    /\ UNCHANGED <<dbVars, envVars, is_running, op, nOps>>

\* unprocessed_lectures = ...filter(audio_url IS NOT NULL, is_processed ==
\* False).count(); the dictionary with self.is_running is returned
StatusUnprocessed(c) ==
    /\ pc[c] = "st_unprocessed"
    /\ StatusStep(c, "done",
                  [result[c] EXCEPT !.unprocessed_lectures = Cardinality(Unprocessed),
                                    !.is_running = is_running])
    /\ UNCHANGED <<dbVars, envVars, is_running, op, nOps>>

\* ---- specifications -----------------------------------------------------
\* the operations of the background processor and of routes/processing.py
NextBP ==
    \/ Start
    \/ \E t \in LoopThreads : ProcessUnprocessedLectures(t)
    \/ \E c \in Requests : \E id \in LectureIds : ProcessImmediately(c, id)
    \/ \E c \in Requests : RetryFailedProcessing(c)
    \/ \E c \in Contexts : BPTranscribe(c)
    \/ \E c \in Contexts : BPSummary(c)
    \/ \E c \in Contexts : BPKeyPoints(c)
    \/ \E c \in Contexts : BPTasks(c)
    \/ \E c \in Contexts : BPCommit(c)
    \/ \E c \in Contexts : Continue(c)
    \/ \E c \in Requests : Finish(c)
    \/ \E u \in Users : AddStudent(u)

\* the two routes that run their own copy of the pipeline
NextRoutes ==
    \/ \E c \in Requests : \E id \in LectureIds : AiProcessLecture(c, id)
    \/ \E c \in Requests : AiTranscribe(c)
    \/ \E c \in Requests : AiSummary(c)
    \/ \E c \in Requests : AiKeyPoints(c)
    \/ \E c \in Requests : AiTasks(c)
    \/ \E c \in Requests : AiCommit(c)
    \/ \E c \in Requests : \E id \in LectureIds : LecProcessLecture(c, id)
    \/ \E c \in Requests : LecTranscribe(c)
    \/ \E c \in Requests : LecSummary(c)
    \/ \E c \in Requests : LecKeyPoints(c)
    \/ \E c \in Requests : LecCommit(c)
    \/ \E id \in LectureIds : \E data \in UpdatePayloads : UpdateLecture(id, data)

\* stopping the loop
NextLifecycle ==
    \/ Stop
    \/ \E t \in LoopThreads : LoopExit(t)

Next == NextBP \/ NextRoutes \/ NextLifecycle \/ Tick

Spec == Init /\ [][Next]_vars

\* concurrent operations of the background processor
SpecBP == Init /\ [][NextBP]_vars

\* no context is inside an operation
Quiet == \A c \in Contexts : pc[c] \in {"idle", "dead", "loop_check"}

\* every entry point of the pipeline, one operation at a time
NextSeq ==
    \/ Start
    \/ \E t \in LoopThreads : Quiet /\ ProcessUnprocessedLectures(t)
    \/ \E c \in Requests : \E id \in LectureIds : Quiet /\ ProcessImmediately(c, id)
    \/ \E c \in Requests : Quiet /\ RetryFailedProcessing(c)
    \/ \E c \in Requests : \E id \in LectureIds : Quiet /\ AiProcessLecture(c, id)
    \/ \E c \in Requests : \E id \in LectureIds : Quiet /\ LecProcessLecture(c, id)
    \/ \E c \in Contexts : BPTranscribe(c)
    \/ \E c \in Contexts : BPSummary(c)
    \/ \E c \in Contexts : BPKeyPoints(c)
    \/ \E c \in Contexts : BPTasks(c)
    \/ \E c \in Contexts : BPCommit(c)
    \/ \E c \in Requests : AiTranscribe(c)
    \/ \E c \in Requests : AiSummary(c)
    \/ \E c \in Requests : AiKeyPoints(c)
    \/ \E c \in Requests : AiTasks(c)
    \/ \E c \in Requests : AiCommit(c)
    \/ \E c \in Requests : LecTranscribe(c)
    \/ \E c \in Requests : LecSummary(c)
    \/ \E c \in Requests : LecKeyPoints(c)
    \/ \E c \in Requests : LecCommit(c)
    \/ \E c \in Contexts : Continue(c)
    \/ \E c \in Requests : Finish(c)
    \/ \E u \in Users : AddStudent(u)

SpecSeq == Init /\ [][NextSeq]_vars

\* the operations of the background processor, one at a time
NextSerial ==
    \/ Start
    \/ \E t \in LoopThreads : Quiet /\ ProcessUnprocessedLectures(t)
    \/ \E c \in Requests : \E id \in LectureIds : Quiet /\ ProcessImmediately(c, id)
    \/ \E c \in Requests : Quiet /\ RetryFailedProcessing(c)
    \/ \E c \in Contexts : BPTranscribe(c)
    \/ \E c \in Contexts : BPSummary(c)
    \/ \E c \in Contexts : BPKeyPoints(c)
    \/ \E c \in Contexts : BPTasks(c)
    \/ \E c \in Contexts : BPCommit(c)
    \/ \E c \in Contexts : Continue(c)
    \/ \E c \in Requests : Finish(c)
    \/ \E u \in Users : AddStudent(u)

SpecSerial == Init /\ [][NextSerial]_vars

\* the background processor and POST /api/ai/process-lecture, one
\* operation at a time
NextPipelines ==
    \/ NextSerial
    \/ \E c \in Requests : \E id \in LectureIds : Quiet /\ AiProcessLecture(c, id)
    \/ \E c \in Requests : AiTranscribe(c)
    \/ \E c \in Requests : AiSummary(c)
    \/ \E c \in Requests : AiKeyPoints(c)
    \/ \E c \in Requests : AiTasks(c)
    \/ \E c \in Requests : AiCommit(c)

SpecPipelines == Init /\ [][NextPipelines]_vars

\* immediate triggers, one at a time, on lectures that clients edit
NextEntry ==
    \/ \E id \in LectureIds : \E data \in UpdatePayloads : Quiet /\ UpdateLecture(id, data)
    \/ \E c \in Requests : \E id \in LectureIds : Quiet /\ ProcessImmediately(c, id)
    \/ \E c \in Contexts : BPTranscribe(c)
    \/ \E c \in Contexts : BPSummary(c)
    \/ \E c \in Contexts : BPKeyPoints(c)
    \/ \E c \in Contexts : BPTasks(c)
    \/ \E c \in Contexts : BPCommit(c)
    \/ \E c \in Requests : Finish(c)

SpecEntry == Init /\ [][NextEntry]_vars

\* one more lecture with audio than a cycle's batch holds, in a deployment
\* without provider keys, so that no attempt succeeds
StarveIds == 1..(BatchLimit + 1)

InitStarve ==
    /\ lectures = [l \in StarveIds |-> NewLecture("a1", 0)]
    /\ tasks = EmptyBag
    /\ students = {}
    /\ rapidapi_key = FALSE
    /\ gemini_key = FALSE
    /\ now = 0
    /\ is_running = FALSE
    /\ pc = [c \in Contexts |-> IF c \in LoopThreads THEN "dead" ELSE "idle"]
    /\ op = [c \in Contexts |-> "none"]
    /\ cur = [c \in Contexts |-> UnknownLecture]
    /\ batch = [c \in Contexts |-> <<>>]
    /\ loc = [c \in Contexts |-> NoLocals]
    /\ result = [c \in Contexts |-> NoResult]
    /\ att = [c \in Contexts |-> NoAttempt]
    /\ processed_count = [c \in Contexts |-> 0]
    /\ nOps = 0

\* while self.is_running: one more cycle, as long as the thread lives
Cycle(t) ==
    /\ RunCycle(t)
    /\ op' = [op EXCEPT ![t] = "cycle"]
    /\ UNCHANGED nOps

NextStarve ==
    \/ Start
    \/ \E t \in LoopThreads : Cycle(t)
    \/ \E c \in Contexts : BPTranscribe(c)
    \/ \E c \in Contexts : Continue(c)

\* the loop thread keeps running: every step that stays possible is taken
SpecStarve == InitStarve /\ [][NextStarve]_vars /\ WF_vars(NextStarve)

\* one step of loop thread t
LoopStep(t) ==
    \/ LoopExit(t)
    \/ Cycle(t)
    \/ BPTranscribe(t)
    \/ BPSummary(t)
    \/ BPKeyPoints(t)
    \/ BPTasks(t)
    \/ BPCommit(t)
    \/ Continue(t)

\* start() once the thread of the previous start() has ended
StartAfterExit ==
    /\ \A t \in LoopThreads : pc[t] = "dead"
    /\ Start

\* stop() at any time while the loop thread runs its cycles, and no start()
\* before the thread has ended
NextStop ==
    \/ StartAfterExit
    \/ Stop
    \/ \E t \in LoopThreads : LoopExit(t)
    \/ \E t \in LoopThreads : Cycle(t)
    \/ \E c \in Contexts : BPTranscribe(c)
    \/ \E c \in Contexts : BPSummary(c)
    \/ \E c \in Contexts : BPKeyPoints(c)
    \/ \E c \in Contexts : BPTasks(c)
    \/ \E c \in Contexts : BPCommit(c)
    \/ \E c \in Contexts : Continue(c)
    \/ \E u \in Users : AddStudent(u)

\* a live thread is scheduled, its provider calls return (they carry
\* timeouts) and its sleep ends
SpecStop ==
    Init /\ [][NextStop]_vars /\ \A t \in LoopThreads : WF_vars(LoopStep(t))

\* a deployment without a text-generation key
InitRestart == Init /\ ~gemini_key

\* start() and stop() at any time
NextRestart ==
    \/ Start
    \/ Stop
    \/ \E t \in LoopThreads : LoopExit(t)
    \/ \E t \in LoopThreads : Cycle(t)
    \/ \E c \in Contexts : BPTranscribe(c)
    \/ \E c \in Contexts : BPSummary(c)
    \/ \E c \in Contexts : Continue(c)

SpecRestart == InitRestart /\ [][NextRestart]_vars

\* status requests while clients edit lectures and the processor is
\* started and stopped
NextStatus ==
    \/ \E c \in Requests : StatusTotal(c)
    \/ \E c \in Requests : StatusProcessed(c)
    \/ \E c \in Requests : StatusUnprocessed(c)
    \/ \E c \in Requests : Finish(c)
    \/ \E id \in LectureIds : \E data \in UpdatePayloads : UpdateLecture(id, data)
    \/ Start
    \/ Stop

SpecStatus == Init /\ [][NextStatus]_vars

\* ---- properties ---------------------------------------------------------
BPOps == {"cycle", "immediate", "retry"}
BPStages == {"bp_transcribe", "bp_summary", "bp_keypoints", "bp_tasks", "bp_commit"}
TextGenerationCalls == {"generate_summary", "extract_key_points", "extract_tasks"}
InPipeline(c) == pc[c] \in BPStages
CallsOf(a) == {a.calls[i] : i \in 1..Len(a.calls)}
AlreadyProcessed == [success |-> TRUE, message |-> "Lecture already processed"]
ProcessedSuccessfully == [success |-> TRUE, message |-> "Lecture processed successfully"]

\* C1: of the background cycle and the immediate triggers that run at the
\* same time for one lecture id, only one executes _process_lecture: no two
\* contexts are inside the stage pipeline for the same lecture.
C1_SingleFlight ==
    \A c1, c2 \in Contexts :
        (c1 # c2 /\ InPipeline(c1) /\ InPipeline(c2)) => cur[c1] # cur[c2]

\* C2: process_lecture_immediately on a lecture that is already processed
\* (the second of two calls in sequence) returns 'Lecture already processed'
\* at once: no Task row is added, no lecture field changes and no
\* transcription or text-generation call is made.
C2_SecondCallIsNoOp ==
    [][\A c \in Requests :
          (pc[c] = "idle" /\ op'[c] = "immediate" /\ cur'[c] \in Lectures
             /\ lectures[cur'[c]].is_processed)
          => (/\ pc'[c] = "attempt_end"
              /\ result'[c] = AlreadyProcessed
              /\ att'[c].calls = <<>>
              /\ tasks' = tasks
              /\ lectures' = lectures)]_vars

\* a second immediate call has returned 'already processed' for a lecture
\* whose tasks the first attempt created
C2_Witness ==
    \E c \in Requests :
        /\ op[c] = "immediate" /\ pc[c] = "attempt_end"
        /\ result[c] = AlreadyProcessed
        /\ nOps = 2
        /\ \E r \in BagToSet(tasks) : r.lecture_id = cur[c]

\* the rows a step adds to the tasks table
Added == tasks' (-) tasks

\* C3: a background-processor attempt that succeeds with D descriptors and S
\* students adds exactly D*S Task rows, one per (descriptor, student) pair,
\* each AI-generated, for this lecture and assigned to that student.
C3_FanOutCardinality ==
    [][\A c \in Contexts :
          (pc[c] = "bp_commit" /\ pc'[c] = "attempt_end" /\ att'[c].outcome = "committed")
          => LET ds == loc[c].tasks_data.items
             IN /\ BagCardinality(Added) = Len(ds) * Cardinality(students)
                /\ tasks' = tasks (+) Added
                /\ \A r \in BagToSet(Added) :
                      /\ r.is_ai_generated
                      /\ r.lecture_id = cur[c]
                      /\ r.assigned_to_id \in students
                /\ \A i \in 1..Len(ds) : \A u \in students :
                      \E r \in BagToSet(Added) :
                          /\ r.title = ds[i].title
                          /\ r.assigned_to_id = u
                          /\ CopiesIn(r, Added) = 1]_vars

\* an attempt has committed the four rows of two descriptors and two students
C3_Witness ==
    \E c \in Contexts :
        /\ op[c] \in BPOps /\ pc[c] = "attempt_end"
        /\ att[c].outcome = "committed"
        /\ att[c].ndesc = 2 /\ att[c].nstudents = 2 /\ att[c].nmade = 4
        /\ BagCardinality(tasks) = 4

\* C4: after transcription succeeded and summary generation returned nothing,
\* the lecture's transcript is the transcribed text and is_processed is False.
C4_TranscriptRetained ==
    \A c \in Contexts :
        (pc[c] = "attempt_end" /\ op[c] \in BPOps \cup {"ai"} /\ ~att[c].pre
           /\ att[c].outcome = "no_summary")
        => (/\ lectures[cur[c]].transcript = att[c].transcript
            /\ ~lectures[cur[c]].is_processed)

\* C5: when the transcription provider is unavailable or returns no text, the
\* background-processor attempt ends at once: the lecture row (transcript,
\* summary, key_points, is_processed, updated_at) and the tasks table are
\* unchanged and no text-generation call has been made.
C5_TranscribeFailure ==
    [][\A c \in Contexts :
          (pc[c] = "bp_transcribe" /\ pc'[c] # "bp_transcribe"
             /\ (~rapidapi_key \/ ~Truthy(att'[c].transcript)))
          => (/\ pc'[c] = "attempt_end"
              /\ att'[c].outcome \in {"speech_unavailable", "no_transcript"}
              /\ lectures' = lectures
              /\ tasks' = tasks
              /\ CallsOf(att'[c]) \cap TextGenerationCalls = {}
              /\ att'[c].nmade = 0)]_vars

\* an attempt called the transcription provider and got no text
C5_Witness ==
    \E c \in Contexts :
        /\ pc[c] = "attempt_end" /\ op[c] \in BPOps
        /\ att[c].outcome = "no_transcript"
        /\ att[c].calls = <<"transcribe_audio">>
        /\ ~lectures[cur[c]].is_processed

\* C6: process_lecture_immediately reports failure when a stage failed or a
\* provider was unavailable, and 'Lecture processed successfully' only for a
\* lecture that is processed afterwards.
C6_SuccessMeansProcessed ==
    \A c \in Requests :
        (op[c] = "immediate" /\ pc[c] = "attempt_end")
        => (/\ att[c].outcome \in {"speech_unavailable", "no_transcript",
                                   "gemini_unavailable", "no_summary", "raised",
                                   "commit_failed"}
                 => ~result[c].success
            /\ result[c] = ProcessedSuccessfully => lectures[cur[c]].is_processed)

\* C7: an attempt on a lecture that is already processed, through any entry
\* point, calls no provider and commits nothing.
C7_NoOpOnProcessed ==
    \A c \in Contexts :
        att[c].pre => (/\ att[c].calls = <<>>
                       /\ att[c].outcome # "committed"
                       /\ att[c].nmade = 0)

\* C8: POST /api/lectures/<id>/process leaves an unprocessed lecture
\* unprocessed when its attempt obtained no transcript.
C8_NotProcessedWithoutTranscript ==
    \A c \in Requests :
        (op[c] = "lec" /\ pc[c] = "attempt_end" /\ cur[c] \in Lectures /\ ~att[c].pre
           /\ ~Truthy(att[c].transcript))
        => ~lectures[cur[c]].is_processed

\* C9: a processed lecture has a non-empty transcript and a non-empty summary.
C9_ProcessedHasArtifacts ==
    \A l \in Lectures :
        lectures[l].is_processed
        => (Truthy(lectures[l].transcript) /\ Truthy(lectures[l].summary))

\* a lecture has been processed by the background processor
C9_Witness ==
    \E l \in Lectures :
        /\ lectures[l].is_processed
        /\ lectures[l].transcript = "hello world"
        /\ lectures[l].summary = "greeting"

\* C10: when extract_tasks returns an empty list after transcription and
\* summary succeeded, the attempt does not fail in the task loop, adds no
\* Task row and (the database accepting the commit) marks the lecture
\* processed.
C10_EmptyExtraction ==
    [][\A c \in Contexts :
          (pc[c] = "bp_commit" /\ pc'[c] = "attempt_end"
             /\ loc[c].tasks_data = Some(<<>>))
          => (/\ tasks' = tasks
              /\ att'[c].outcome \in {"committed", "commit_failed"}
              /\ att'[c].outcome = "committed"
                    => (/\ lectures'[cur[c]].is_processed
                        /\ lectures'[cur[c]].transcript = loc[c].transcript
                        /\ lectures'[cur[c]].summary = loc[c].summary))]_vars

\* an attempt with an empty extraction has committed: no rows, lecture processed
C10_Witness ==
    \E c \in Contexts :
        /\ pc[c] = "attempt_end" /\ op[c] \in BPOps
        /\ att[c].outcome = "committed"
        /\ att[c].extracted = "list" /\ att[c].ndesc = 0 /\ att[c].nmade = 0
        /\ lectures[cur[c]].is_processed
        /\ tasks = EmptyBag

\* C11: when a non-empty descriptor list was extracted and no user has the
\* student role at fan-out time, the attempt (background processor or
\* /api/ai/process-lecture) adds no Task row, raises nothing in the task
\* loop and, the database accepting the commit, marks the lecture processed.
C11_NoStudents ==
    [][\A c \in Contexts :
          (pc[c] \in {"bp_commit", "ai_commit"} /\ pc'[c] = "attempt_end"
             /\ TruthyList(loc[c].tasks_data) /\ students = {})
          => (/\ tasks' = tasks
              /\ att'[c].outcome \in {"committed", "commit_failed"}
              /\ att'[c].outcome = "committed" => lectures'[cur[c]].is_processed)]_vars

\* a background attempt with descriptors and no student has committed
C11_Witness ==
    \E c \in Contexts :
        /\ pc[c] = "attempt_end" /\ op[c] \in BPOps
        /\ att[c].outcome = "committed"
        /\ att[c].ndesc > 0 /\ att[c].nstudents = 0 /\ att[c].nmade = 0
        /\ lectures[cur[c]].is_processed
        /\ tasks = EmptyBag

\* the descriptors in the locals of context c, and the step that ends its
\* attempt at the commit of the background processor or of routes/ai.py
Descriptors(c) == loc[c].tasks_data.items
FanOutStep(c) ==
    /\ pc[c] \in {"bp_commit", "ai_commit"}
    /\ pc'[c] = "attempt_end"
    /\ TruthyList(loc[c].tasks_data)
    /\ students # {}

\* the priority a descriptor's string stands for: lower-cased, then high,
\* low or, for anything else or a missing key, medium
NormalisedPriority(d) ==
    IF d.priority \in {"high", "HIGH", "High"} THEN "HIGH"
    ELSE IF d.priority \in {"low", "LOW", "Low"} THEN "LOW"
    ELSE "MEDIUM"

\* C12: whatever the priority strings of the extracted descriptors (any
\* letter case, unrecognized, missing), the fan-out of the background
\* processor and of /api/ai/process-lecture does not raise, and every
\* descriptor yields for every student a Task whose priority is High for
\* 'high', Low for 'low' and Medium otherwise, compared in lower case.
C12_PriorityNormalised ==
    [][\A c \in Contexts :
          (FanOutStep(c)
             /\ \A i \in 1..Len(Descriptors(c)) : Descriptors(c)[i].due_date = None)
          => (/\ att'[c].outcome \in {"committed", "commit_failed"}
              /\ att'[c].outcome = "committed"
                    => \A i \in 1..Len(Descriptors(c)) : \A u \in students :
                         \E row \in BagToSet(Added) :
                            /\ row.title = Descriptors(c)[i].title
                            /\ row.assigned_to_id = u
                            /\ row.priority = NormalisedPriority(Descriptors(c)[i]))]_vars

\* C13: a descriptor whose due_date is present but is no ISO date/time yields
\* Task rows with due_date null for every student; it does not make the
\* attempt of the background processor or of /api/ai/process-lecture raise.
C13_UnparsableDueDate ==
    [][\A c \in Contexts :
          (FanOutStep(c)
             /\ \A i \in 1..Len(Descriptors(c)) :
                   ~TaskPriorityRaises(GetPriority(Descriptors(c)[i])))
          => (/\ att'[c].outcome \in {"committed", "commit_failed"}
              /\ att'[c].outcome = "committed"
                    => \A i \in 1..Len(Descriptors(c)) : \A u \in students :
                         DueDateRejected(Descriptors(c)[i].due_date)
                         => \E row \in BagToSet(Added) :
                              /\ row.title = Descriptors(c)[i].title
                              /\ row.assigned_to_id = u
                              /\ row.due_date = None)]_vars

\* C14: process_lecture_immediately answers 'Lecture not found' (failure) for
\* an unknown id, 'Lecture already processed' (success) for a processed
\* lecture, with or without audio, and 'No audio file found' (failure) for an
\* unprocessed lecture without audio; in the three cases no provider is
\* called and the lecture and task tables stay as they were.
C14_EntryResults ==
    [][\A c \in Requests :
          (pc[c] = "idle" /\ op'[c] = "immediate")
          => LET id == cur'[c]
                 returns(ok, msg) ==
                     /\ pc'[c] = "attempt_end"
                     /\ result'[c] = [success |-> ok, message |-> msg]
                     /\ att'[c].calls = <<>>
                     /\ lectures' = lectures
                     /\ tasks' = tasks
             IN /\ id \notin Lectures => returns(FALSE, "Lecture not found")
                /\ (id \in Lectures /\ lectures[id].is_processed)
                      => returns(TRUE, "Lecture already processed")
                /\ (id \in Lectures /\ ~lectures[id].is_processed
                      /\ lectures[id].audio_url = None)
                      => returns(FALSE, "No audio file found")]_vars

\* an immediate trigger on a processed lecture that has no audio
C14_Witness ==
    \E c \in Requests :
        /\ op[c] = "immediate" /\ pc[c] = "attempt_end"
        /\ cur[c] \in Lectures
        /\ lectures[cur[c]].is_processed /\ lectures[cur[c]].audio_url = None
        /\ result[c] = AlreadyProcessed

FailedOutcomes ==
    {"speech_unavailable", "no_transcript", "gemini_unavailable", "no_summary",
     "raised", "commit_failed"}

\* C15: a lecture with audio that is still unprocessed when an attempt on it
\* has failed is selected again by a later background cycle, however many
\* other unprocessed lectures with audio there are.
C15_SelectedAgain ==
    \A l \in StarveIds :
        (\E c \in Contexts :
            /\ pc[c] = "attempt_end" /\ cur[c] = l
            /\ att[c].outcome \in FailedOutcomes
            /\ l \in Unprocessed)
        ~> (\E t \in LoopThreads :
              op[t] = "cycle" /\ pc[t] = "bp_transcribe" /\ cur[t] = l)

\* C16: when the answer of the task-extraction provider is not JSON, or not
\* a JSON array, the background attempt goes on to its commit without an
\* exception, adds no Task row and, the database accepting the commit, marks
\* the lecture processed (transcript and summary having been produced).
C16_UnparsableTasks ==
    [][\A c \in Contexts :
          /\ (pc[c] = "bp_tasks" /\ att'[c].extracted = "unparsable")
                => pc'[c] = "bp_commit"
          /\ (pc[c] = "bp_commit" /\ pc'[c] = "attempt_end"
                /\ att[c].extracted = "unparsable")
                => (/\ tasks' = tasks
                    /\ att'[c].outcome \in {"committed", "commit_failed"}
                    /\ att'[c].outcome = "committed"
                          => (/\ lectures'[cur[c]].is_processed
                              /\ Truthy(lectures'[cur[c]].transcript)
                              /\ Truthy(lectures'[cur[c]].summary)))]_vars

\* a background attempt whose task answer was unparsable has committed,
\* with a student to assign tasks to
C16_Witness ==
    \E c \in Contexts :
        /\ pc[c] = "attempt_end" /\ op[c] \in BPOps
        /\ att[c].extracted = "unparsable"
        /\ att[c].outcome = "committed"
        /\ att[c].nstudents > 0 /\ att[c].nmade = 0
        /\ lectures[cur[c]].is_processed
        /\ tasks = EmptyBag

\* C17: when summary generation returns nothing, key-point extraction and
\* task extraction still run in the same attempt.
C17_SummaryFailureDoesNotBlock ==
    \A c \in Contexts :
        (pc[c] = "attempt_end" /\ op[c] \in BPOps \cup {"ai"}
           /\ att[c].outcome = "no_summary")
        => (/\ "extract_key_points" \in CallsOf(att[c])
            /\ "extract_tasks" \in CallsOf(att[c]))

\* the provider calls of _process_lecture, in the order of its stages
StageOrder == <<"transcribe_audio", "generate_summary", "extract_key_points", "extract_tasks">>

\* C18: the provider calls of one _process_lecture invocation are an initial
\* part of transcribe_audio, generate_summary, extract_key_points,
\* extract_tasks: in this order, each at most once, none before the earlier
\* ones have returned.
C18_StageOrder ==
    \A c \in Contexts :
        op[c] \in BPOps
        => (/\ Len(att[c].calls) <= Len(StageOrder)
            /\ att[c].calls = SubSeq(StageOrder, 1, Len(att[c].calls)))

\* an invocation has made the four calls
C18_Witness ==
    \E c \in Contexts :
        /\ op[c] \in BPOps
        /\ pc[c] = "bp_commit"
        /\ att[c].calls = StageOrder

C20_RolledBack ==
    [][\A c \in Contexts :
          (pc[c] = "bp_commit" /\ pc'[c] = "attempt_end"
             /\ att'[c].outcome \in {"raised", "commit_failed"})
          => (/\ lectures' = lectures
              /\ tasks' = tasks
              /\ ~lectures'[cur[c]].is_processed
              /\ cur[c] \in Unprocessed'
              /\ cur[c] \in FailedLectures => cur[c] \in FailedLectures')]_vars

\* an attempt with descriptors and students has raised; its lecture is
\* unprocessed, stale, and has no task
C20_Witness ==
    \E c \in Contexts :
        /\ pc[c] = "attempt_end" /\ op[c] \in BPOps
        /\ att[c].outcome = "raised"
        /\ att[c].ndesc > 0 /\ att[c].nstudents > 0
        /\ cur[c] \in Unprocessed /\ cur[c] \in FailedLectures
        /\ tasks = EmptyBag

\* Lecture.created_at: the lecture ids of the model are in the order of
\* creation, so the n earliest-created rows of S are its n smallest ids
RECURSIVE EarliestCreated(_, _)
EarliestCreated(S, n) ==
    IF n = 0 \/ S = {} THEN {}
    ELSE LET m == CHOOSE x \in S : \A y \in S : x <= y
         IN {m} \cup EarliestCreated(S \ {m}, n - 1)

\* the lectures a cycle that has just begun is going to attempt
SelectedNext(t) == {cur'[t]} \cup {batch'[t][i] : i \in 1..Len(batch'[t])}

\* C21: a background cycle attempts at most 5 lectures, each with a non-null
\* audio_url and is_processed=False when selected, and they are the
\* earliest-created eligible lectures.
C21_BatchSelection ==
    [][\A t \in LoopThreads :
          (pc[t] = "loop_check" /\ pc'[t] = "bp_transcribe" /\ op'[t] = "cycle")
          => (/\ Cardinality(SelectedNext(t)) <= BatchLimit
              /\ SelectedNext(t) \subseteq Unprocessed
              /\ SelectedNext(t) = EarliestCreated(Unprocessed, BatchLimit))]_vars

\* the lectures a retry-failed request that has just begun is going to attempt
RetrySelected(c) ==
    IF pc'[c] = "done" THEN {}
    ELSE {cur'[c]} \cup {batch'[c][i] : i \in 1..Len(batch'[c])}

\* an attempt on lecture l has failed less than the staleness window ago
FailedRecently(l) ==
    \E d \in Contexts :
        /\ pc[d] = "attempt_end" /\ op[d] \in BPOps /\ cur[d] = l
        /\ att[d].outcome \in FailedOutcomes
        /\ att[d].at > now - StaleHours

\* C22: POST /process/retry-failed attempts exactly the lectures with a
\* non-null audio_url, is_processed=False and a timestamp older than one hour,
\* and no lecture whose attempt failed less than one hour ago.
C22_RetrySelection ==
    [][\A c \in Requests :
          (pc[c] = "idle" /\ op'[c] = "retry")
          => (/\ RetrySelected(c) = FailedLectures
              /\ \A l \in RetrySelected(c) : ~FailedRecently(l))]_vars

\* C23: stop() never aborts a stage in progress: it changes nothing but the
\* flag, a loop thread inside a stage goes on to the next stage or to the end
\* of the attempt, and after stop() with no later start() every loop thread
\* eventually terminates.
C23_CleanStop ==
    /\ [][/\ (is_running /\ ~is_running')
               => UNCHANGED <<pc, op, cur, batch, loc, att, lectures, tasks>>
          /\ \A t \in LoopThreads :
                pc[t] \in BPStages => pc'[t] \in BPStages \cup {"attempt_end"}]_vars
    /\ \A t \in LoopThreads : ~is_running ~> (pc[t] = "dead" \/ is_running)

\* stop() was called while a loop thread was inside the pipeline, and the
\* thread has gone on to the commit of that attempt
C23_Witness ==
    \E t \in LoopThreads :
        /\ ~is_running
        /\ pc[t] = "attempt_end" /\ op[t] = "cycle"
        /\ att[t].outcome = "committed"
        /\ att[t].nmade > 0

\* C24: after a fully successful attempt with transcript T, summary S and
\* key-point list K, the lecture has transcript=T, summary=S, key_points equal
\* to the elements of K joined in order (null when K is empty or missing),
\* is_processed=True and a refreshed updated_at; audio_url is unchanged.
C24_SuccessfulAttempt ==
    [][\A c \in Contexts :
          (pc[c] \in {"bp_commit", "ai_commit"} /\ pc'[c] = "attempt_end"
             /\ att'[c].outcome = "committed")
          => LET row == lectures'[cur[c]]
                 K == loc[c].key_points
             IN /\ row.transcript = loc[c].transcript
                /\ row.summary = loc[c].summary
                /\ row.key_points = (IF TruthyList(K) THEN Join(K.items) ELSE None)
                /\ row.is_processed
                /\ row.updated_at = now
                /\ row.audio_url = lectures[cur[c]].audio_url]_vars

\* a step of a status request of context c
StatusStepOf(c) == op'[c] = "status" /\ pc'[c] # pc[c] /\ pc'[c] # "idle"

\* get_processing_status writes nothing
StatusFrame == UNCHANGED <<lectures, tasks, students, is_running>>

\* C25 as stated: get_processing_status changes no lecture, task or processor
\* state; its is_running equals the processor's flag and its counts satisfy
\* processed_lectures + unprocessed_lectures <= total_lectures.
C25_StatusCounts ==
    [][\A c \in Requests :
          StatusStepOf(c)
          => (/\ StatusFrame
              /\ (pc'[c] = "done" /\ result'[c].success)
                   => (/\ result'[c].is_running = is_running
                       /\ result'[c].processed_lectures + result'[c].unprocessed_lectures
                            <= result'[c].total_lectures))]_vars

\* C25, amended: get_processing_status changes no lecture, task or processor
\* state; its is_running equals the processor's flag; each of its three counts
\* is exact for the table at the time of its own query, unprocessed_lectures
\* counting only lectures with audio and is_processed=False; and on any one
\* state of the table processed + unprocessed <= total, so the reported counts
\* satisfy it when no lecture write commits between the three queries.
C25_StatusReadOnly ==
    /\ [][\A c \in Requests :
             StatusStepOf(c)
             => (/\ StatusFrame
                 /\ (pc[c] = "idle" /\ result'[c].success)
                      => result'[c].total_lectures = Cardinality(Lectures)
                 /\ (pc[c] = "st_processed" /\ result'[c].success)
                      => /\ result'[c].processed_lectures = NumProcessed
                         /\ result'[c].total_lectures = result[c].total_lectures
                 /\ (pc[c] = "st_unprocessed" /\ result'[c].success)
                      => /\ result'[c].unprocessed_lectures = Cardinality(Unprocessed)
                         /\ result'[c].is_running = is_running
                         /\ result'[c].total_lectures = result[c].total_lectures
                         /\ result'[c].processed_lectures = result[c].processed_lectures)]_vars
    /\ [](NumProcessed + Cardinality(Unprocessed) <= Cardinality(Lectures))

\* a status request has returned its counts for a table with a processed
\* lecture, an unprocessed lecture with audio and a running processor
C25_Witness ==
    \E c \in Requests :
        /\ op[c] = "status" /\ pc[c] = "done"
        /\ result[c] = StatusResult(2, 1, 1, TRUE)
        /\ NumProcessed = 1 /\ Cardinality(Unprocessed) = 1
        /\ is_running

\* the threads that are executing _process_loop
LiveLoops == {t \in LoopThreads : pc[t] # "dead"}

\* C26: across any sequence or interleaving of start() and stop() calls, at
\* most one thread is executing _process_loop at any time.
C26_SingleLoop == Cardinality(LiveLoops) <= 1

C28_TasksOfOneAttempt ==
    [][\A c \in Contexts :
          (pc[c] = "bp_commit" /\ op[c] \in BPOps /\ BagCardinality(Added) > 0)
          => \A r \in BagToSet(tasks) : r.lecture_id # cur[c]]_vars

\* C29: once stop() has cleared is_running and no start() follows, the loop
\* thread begins no new lecture attempt: the lectures remaining in the batch
\* of the current cycle are not processed.
C29_NoNewAttemptAfterStop ==
    [][\A t \in LoopThreads :
          (~is_running /\ ~is_running')
          => ~(pc[t] \in {"attempt_end", "loop_check"} /\ pc'[t] = "bp_transcribe")]_vars

\* C30: the count reported by POST /process/retry-failed is the number of
\* selected lectures that became is_processed=True during the request: the
\* counter goes up exactly for an attempt that committed.
C30_RetryCount ==
    [][\A c \in Requests :
          (op[c] = "retry" /\ pc[c] = "attempt_end" /\ pc'[c] # "attempt_end")
          => (processed_count'[c] =
                 processed_count[c] + (IF att[c].outcome = "committed" THEN 1 ELSE 0))]_vars

====
